---- MODULE Spec2Model ----
(***************************************************************************)
(* The Theater manager of GoFesl (theaterManager.go): sessions, the        *)
(* command handlers that run as one goroutine per command, the lobby       *)
(* registry kept in the shared key/value store, and the join handshake     *)
(* driven by the process-wide flags wantsToJoin / canJoin and the          *)
(* per-session join ticker.                                                *)
(*                                                                         *)
(* Strings are sequences of tokens (<<"\"", "Test", "\"">> is "Test" in    *)
(* quotes), so that quote stripping and Atoi / Itoa are computed.          *)
(* Packets are functions from field names to such strings.  The            *)
(* transaction id (TID) echoed by the answers is not modelled.  A session  *)
(* has at most one command handler in flight; handlers of different        *)
(* sessions interleave at the statements that touch shared state.          *)
(***************************************************************************)
EXTENDS Integers, Sequences, FiniteSets, TLC

\* ------------------------------------------------------------------ bounds
NumSessions == 3
MaxCmds == 3
MaxRestarts == 1
MaxCloses == 1
MaxDispatch == 2
MaxPings == 2
NumPeers == 2

Sessions == 1..NumSessions
\* the sessions of the two-party scenarios: a game server and a client
Peers == 1..NumPeers

\* -------------------------------------------------------- strings, numbers
Digit(n) ==
  CASE n = 0 -> "0" [] n = 1 -> "1" [] n = 2 -> "2" [] n = 3 -> "3"
    [] n = 4 -> "4" [] n = 5 -> "5" [] n = 6 -> "6" [] n = 7 -> "7"
    [] n = 8 -> "8" [] OTHER -> "9"

Digits == {"0", "1", "2", "3", "4", "5", "6", "7", "8", "9"}

DigitVal(c) == CHOOSE n \in 0..9 : Digit(n) = c

RECURSIVE Itoa(_)
Itoa(n) == IF n < 10 THEN <<Digit(n)>> ELSE Itoa(n \div 10) \o <<Digit(n % 10)>>

RECURSIVE AtoiAcc(_, _)
AtoiAcc(str, acc) ==
  IF str = <<>> THEN acc ELSE AtoiAcc(Tail(str), acc * 10 + DigitVal(Head(str)))

\* strconv.Atoi with the error dropped: 0 for anything that is not a number
Atoi(str) ==
  IF str # <<>> /\ \A i \in 1..Len(str) : str[i] \in Digits
  THEN AtoiAcc(str, 0) ELSE 0

Quote == "\""

StripQuotes(value) ==
  LET v1 == IF Len(value) > 0 /\ value[1] = Quote THEN Tail(value) ELSE value
  IN IF Len(v1) > 0 /\ v1[Len(v1)] = Quote THEN SubSeq(v1, 1, Len(v1) - 1) ELSE v1

EmptyMsg == [k \in {} |-> <<>>]

\* --------------------------------------------------- what the peers supply
\* account id a session puts in R-U-accid, and its rendezvous addresses
AccId(s) == <<"4">> \o Itoa(s)
IntPort(s) == <<"1000">> \o Itoa(s)
IntIP(s) == <<"192.168.0.">> \o Itoa(s)
ExtPort(s) == <<"2000">> \o Itoa(s)
ExtIP(s) == <<"8.8.8.">> \o Itoa(s)
\* address of the TCP connection as the listener sees it
ConnIP(s) == <<"10.0.0.">> \o Itoa(s)

EGAMMsg(s) ==
  [k \in {"R-INT-PORT", "R-INT-IP", "PORT", "R-U-externalIp", "R-U-accid"} |->
     CASE k = "R-INT-PORT" -> IntPort(s)
       [] k = "R-INT-IP" -> IntIP(s)
       [] k = "PORT" -> ExtPort(s)
       [] k = "R-U-externalIp" -> ExtIP(s)
       [] OTHER -> AccId(s)]

\* rows of revive_soldiers (game = 'heroes'): web_id -> pid, nickname.
\* The last session has no soldier.
HasSoldier(accid) == \E s \in Sessions : s < NumSessions /\ accid = AccId(s)
SoldierPid(accid) == <<"pid">> \o Tail(accid)
SoldierNick(accid) == <<"nick">> \o Tail(accid)

VARIABLES
  conn,               \* session -> "none" | "open" | "closed" | "error"
  IsServer,           \* Client.State.IsServer
  wantsToJoin, canJoin, wantsToLeaveQueue,
  localPort, remotePort, localIP, remoteIP, userId, nickname, pid,
  Lobbies,            \* gameServer-config / Lobbies
  games,              \* lobby id string -> hash of gameServer-<id>
  h,                  \* session -> command handler in flight
  jt,                 \* session -> position of its join ticker goroutine
  sent,               \* WriteFESL calls, in order
  ncmd,               \* command events dispatched so far
  dropped,            \* of these, the ones that returned at the active check
  restarts,
  panicked,
  hb,                 \* session -> position of its heartbeat goroutine
  gdata,              \* game id string -> hash gdata:<id> (second-draft UGAM)
  execs               \* Exec calls on the durable mirror, in order

flags == <<wantsToJoin, canJoin, wantsToLeaveQueue>>
ident == <<localPort, remotePort, localIP, remoteIP, userId, nickname, pid>>
store == <<Lobbies, games>>
draft == <<gdata, execs>>
vars == <<conn, IsServer, flags, ident, store, h, jt, sent, ncmd, dropped, restarts, panicked,
          hb, draft>>

IsActive(s) == conn[s] = "open"

Idle == [pc |-> "idle", msg |-> EmptyMsg, gameLid |-> 0, left |-> {}]

\* a command event for s can be handed to a handler goroutine
CanDispatch(s) ==
  /\ ~panicked
  /\ conn[s] # "none"
  /\ h[s].pc = "idle"
  /\ ncmd < MaxCmds

Dispatched(s) ==
  /\ ncmd' = ncmd + 1
  /\ dropped' = IF IsActive(s) THEN dropped ELSE dropped + 1

WriteFESL(s, type, packet) == Append(sent, [to |-> s, type |-> type, f |-> packet])

Init ==
  /\ conn = [s \in Sessions |-> "none"]
  /\ IsServer = [s \in Sessions |-> FALSE]
  /\ wantsToJoin = FALSE /\ canJoin = FALSE /\ wantsToLeaveQueue = FALSE
  /\ localPort = <<>> /\ remotePort = <<>> /\ localIP = <<>> /\ remoteIP = <<>>
  /\ userId = <<>> /\ nickname = <<>> /\ pid = <<>>
  /\ Lobbies = <<"0">>
  /\ games = [l \in {} |-> EmptyMsg]
  /\ h = [s \in Sessions |-> Idle]
  /\ jt = [s \in Sessions |-> "off"]
  /\ sent = <<>>
  /\ ncmd = 0
  /\ dropped = 0
  /\ restarts = 0
  /\ panicked = FALSE
  /\ hb = [s \in Sessions |-> "off"]
  /\ gdata = [l \in {} |-> EmptyMsg]
  /\ execs = <<>>

\* ---------------------------------------------------------------- sessions
\* a connection is accepted and its newClient event starts the tickers;
\* sessions are numbered in the order they are accepted
newClient(s) ==
  /\ ~panicked
  /\ conn[s] = "none"
  /\ \A t \in Sessions : t < s => conn[t] # "none"
  /\ conn' = [conn EXCEPT ![s] = "open"]
  /\ jt' = [jt EXCEPT ![s] = "wait"]
  /\ UNCHANGED <<IsServer, flags, ident, store, h, sent, ncmd, dropped, restarts, panicked>>
  /\ hb' = [hb EXCEPT ![s] = "wait"]
  /\ UNCHANGED draft

\* the connection ends: the socket clears IsActive; close() and error() only log
close(s) ==
  /\ ~panicked
  /\ conn[s] = "open"
  /\ Cardinality({t \in Sessions : conn[t] = "closed"}) < MaxCloses
  /\ conn' = [conn EXCEPT ![s] = "closed"]
  /\ UNCHANGED <<IsServer, flags, ident, store, h, jt, sent, ncmd, dropped, restarts, panicked>>
  /\ UNCHANGED <<hb, draft>>

\* -------------------------------------------------------------------- EGAM
EGAMAnswer == ("GID" :> <<"5459">>) @@ ("LID" :> <<"1">>)

\* EGAM without its active check
EGAMBeginUnchecked(s, m, prepOk) ==
  /\ CanDispatch(s)
  /\ Dispatched(s)
  /\ localPort' = m["R-INT-PORT"]
  /\ localIP' = m["R-INT-IP"]
  /\ remotePort' = m["PORT"]
  /\ remoteIP' = m["R-U-externalIp"]
  /\ userId' = m["R-U-accid"]
  /\ IF prepOk
     THEN /\ h' = [h EXCEPT ![s] = [Idle EXCEPT !.pc = "egam_scan", !.msg = m]]
          /\ UNCHANGED panicked
     ELSE /\ panicked' = TRUE
          /\ UNCHANGED h
  /\ UNCHANGED <<conn, IsServer, flags, nickname, pid, store, jt, sent, restarts>>
  /\ UNCHANGED <<hb, draft>>

\* the active check, the address and account globals, and db.Prepare; a failed
\* Prepare returns through the deferred Close of a nil statement
EGAMBegin(s, m, prepOk) ==
  /\ CanDispatch(s)
  /\ Dispatched(s)
  /\ IF ~IsActive(s)
     THEN UNCHANGED <<conn, IsServer, flags, ident, store, h, jt, sent, restarts, panicked>>
     ELSE /\ localPort' = m["R-INT-PORT"]
          /\ localIP' = m["R-INT-IP"]
          /\ remotePort' = m["PORT"]
          /\ remoteIP' = m["R-U-externalIp"]
          /\ userId' = m["R-U-accid"]
          /\ IF prepOk
             THEN /\ h' = [h EXCEPT ![s] = [Idle EXCEPT !.pc = "egam_scan", !.msg = m]]
                  /\ UNCHANGED panicked
             ELSE /\ panicked' = TRUE
                  /\ UNCHANGED h
          /\ UNCHANGED <<conn, IsServer, flags, nickname, pid, store, jt, sent, restarts>>
  /\ UNCHANGED <<hb, draft>>

\* QueryRow(...).Scan(&pid, &nickname), its error dropped, then wantsToJoin = true
EGAMScan(s) ==
  /\ ~panicked
  /\ h[s].pc = "egam_scan"
  /\ LET accid == h[s].msg["R-U-accid"]
     IN IF HasSoldier(accid)
        THEN pid' = SoldierPid(accid) /\ nickname' = SoldierNick(accid)
        ELSE UNCHANGED <<pid, nickname>>
  /\ wantsToJoin' = TRUE
  /\ h' = [h EXCEPT ![s].pc = "egam_ack"]
  /\ UNCHANGED <<conn, IsServer, canJoin, wantsToLeaveQueue, localPort, remotePort,
                 localIP, remoteIP, userId, store, jt, sent, ncmd, dropped, restarts, panicked>>
  /\ UNCHANGED <<hb, draft>>

\* canJoin = false and the acknowledgement
EGAMAck(s) ==
  /\ ~panicked
  /\ h[s].pc = "egam_ack"
  /\ canJoin' = FALSE
  /\ sent' = WriteFESL(s, "EGAM", EGAMAnswer)
  /\ h' = [h EXCEPT ![s] = Idle]
  /\ UNCHANGED <<conn, IsServer, wantsToJoin, wantsToLeaveQueue, ident, store, jt,
                 ncmd, dropped, restarts, panicked>>
  /\ UNCHANGED <<hb, draft>>

\* ------------------------------------------------------------- join ticker
Ticket == <<"2018751182">>

EGEGPacket ==
  [k \in {"PL", "TICKET", "PID", "I", "P", "LID", "GID"} |->
     CASE k = "PL" -> <<"pc">>
       [] k = "TICKET" -> Ticket
       [] k = "PID" -> pid
       [] k = "I" -> <<"45.77.79.240">>
       [] k = "P" -> <<"18569">>
       [] k = "LID" -> <<"1">>
       [] OTHER -> <<"5459">>]

\* EGRQ with the nickname where the account id belongs
EGRQPacketNickAsAccid ==
  [k \in {"NAME", "UID", "PID", "TICKET", "IP", "PORT", "INT-IP", "INT-PORT",
          "R-U-accid", "R-U-externalIp", "R-U-internalIp", "LID", "GID"} |->
     CASE k = "NAME" -> nickname
       [] k = "UID" -> userId
       [] k = "PID" -> pid
       [] k = "TICKET" -> Ticket
       [] k = "IP" -> remoteIP
       [] k = "PORT" -> remotePort
       [] k = "INT-IP" -> localIP
       [] k = "INT-PORT" -> localPort
       [] k = "R-U-accid" -> nickname
       [] k = "R-U-externalIp" -> remoteIP
       [] k = "R-U-internalIp" -> remotePort
       [] k = "LID" -> <<"1">>
       [] OTHER -> <<"5459">>]

EGRQPacket ==
  [k \in {"NAME", "UID", "PID", "TICKET", "IP", "PORT", "INT-IP", "INT-PORT",
          "R-U-accid", "R-U-externalIp", "R-U-internalIp", "LID", "GID"} |->
     CASE k = "NAME" -> nickname
       [] k = "UID" -> userId
       [] k = "PID" -> pid
       [] k = "TICKET" -> Ticket
       [] k = "IP" -> remoteIP
       [] k = "PORT" -> remotePort
       [] k = "INT-IP" -> localIP
       [] k = "INT-PORT" -> localPort
       [] k = "R-U-accid" -> userId
       [] k = "R-U-externalIp" -> remoteIP
       [] k = "R-U-internalIp" -> remotePort
       [] k = "LID" -> <<"1">>
       [] OTHER -> <<"5459">>]

\* where the join goroutine goes at the top of its loop
LoopTop(s) == IF IsActive(s) THEN "wait" ELSE "off"

\* a tick of JoinTicker: the goroutine ends on an inactive session, otherwise
\* it reads the flag of its role
JoinTick(s) ==
  /\ ~panicked
  /\ jt[s] = "wait"
  /\ IF ~IsActive(s)
     THEN jt' = [jt EXCEPT ![s] = "off"] /\ UNCHANGED wantsToLeaveQueue
     ELSE IF ~IsServer[s]
     THEN /\ jt' = [jt EXCEPT ![s] = IF canJoin THEN "egeg" ELSE "wait"]
          /\ UNCHANGED wantsToLeaveQueue
     ELSE IF wantsToJoin
     THEN jt' = [jt EXCEPT ![s] = "egrq"] /\ UNCHANGED wantsToLeaveQueue
     ELSE /\ wantsToLeaveQueue' = FALSE
          /\ UNCHANGED jt
  /\ UNCHANGED <<conn, IsServer, wantsToJoin, canJoin, ident, store, h, sent, ncmd,
                 dropped, restarts, panicked>>
  /\ UNCHANGED <<hb, draft>>

\* the body of the branch the tick entered
JoinSend(s) ==
  /\ ~panicked
  /\ jt[s] \in {"egeg", "egrq"}
  /\ IF jt[s] = "egeg"
     THEN /\ canJoin' = FALSE
          /\ sent' = WriteFESL(s, "EGEG", EGEGPacket)
          /\ UNCHANGED <<wantsToJoin, wantsToLeaveQueue>>
     ELSE /\ wantsToJoin' = FALSE
          /\ sent' = WriteFESL(s, "EGRQ", EGRQPacket)
          /\ canJoin' = TRUE
          /\ wantsToLeaveQueue' = FALSE
  /\ jt' = [jt EXCEPT ![s] = LoopTop(s)]
  /\ UNCHANGED <<conn, IsServer, ident, store, h, ncmd, dropped, restarts, panicked>>
  /\ UNCHANGED <<hb, draft>>

\* --------------------------------------------------------------- heartbeat
PingPacket == ("TID" :> <<"0">>)

\* PINGs written on s so far
Pings(s) == Cardinality({i \in 1..Len(sent) : sent[i].to = s /\ sent[i].type = "PING"})

\* the transport reports a failed write as a connection error of that session,
\* which ends the session
WriteFails(s) == conn' = [conn EXCEPT ![s] = "error"]

\* a heartbeat goroutine that never looks at the active flag
HeartTickUnchecked(s) ==
  /\ ~panicked
  /\ hb[s] = "wait"
  /\ Pings(s) < MaxPings
  /\ hb' = [hb EXCEPT ![s] = "ping"]
  /\ UNCHANGED <<conn, IsServer, flags, ident, store, h, jt, sent, ncmd, dropped,
                 restarts, panicked, draft>>

\* a tick of HeartTicker: the goroutine ends on an inactive session, otherwise
\* it goes on to build the PING
HeartTick(s) ==
  /\ ~panicked
  /\ hb[s] = "wait"
  /\ IsActive(s) => Pings(s) < MaxPings
  /\ hb' = [hb EXCEPT ![s] = IF IsActive(s) THEN "ping" ELSE "off"]
  /\ UNCHANGED <<conn, IsServer, flags, ident, store, h, jt, sent, ncmd, dropped,
                 restarts, panicked, draft>>

\* a heartbeat goroutine that ends after its first PING
HeartSendOnce(s, ok) ==
  /\ ~panicked
  /\ hb[s] = "ping"
  /\ sent' = WriteFESL(s, "PING", PingPacket)
  /\ hb' = [hb EXCEPT ![s] = "off"]
  /\ UNCHANGED <<conn, IsServer, flags, ident, store, h, jt, ncmd, dropped, restarts,
                 panicked, draft>>

\* the PING is written, its result dropped, and the loop is back at its top
HeartSend(s, ok) ==
  /\ ~panicked
  /\ hb[s] = "ping"
  /\ IF ok \/ ~IsActive(s)
     THEN /\ sent' = WriteFESL(s, "PING", PingPacket)
          /\ hb' = [hb EXCEPT ![s] = LoopTop(s)]
          /\ UNCHANGED conn
     ELSE /\ WriteFails(s)
          /\ hb' = [hb EXCEPT ![s] = "wait"]
          /\ UNCHANGED sent
  /\ UNCHANGED <<IsServer, flags, ident, store, h, jt, ncmd, dropped, restarts,
                 panicked, draft>>

\* ---------------------------------------------------------- shared store
\* core.RedisState.Set on the hash gameServer-<id>: the field is written, and
\* the hash comes to exist with its first field
HSet(g, id, key, value) ==
  IF id \in DOMAIN g
  THEN [g EXCEPT ![id] = (key :> value) @@ @]
  ELSE (id :> (key :> value)) @@ g

RECURSIVE HSetAll(_, _, _, _)
HSetAll(g, id, m, keys) ==
  IF keys = {} THEN g
  ELSE LET k == CHOOSE x \in keys : TRUE
       IN HSetAll(HSet(g, id, k, m[k]), id, m, keys \ {k})

\* -------------------------------------------------------------------- CGAM
CGAMMsgs ==
  { ("NAME" :> <<Quote, "Test", Quote>>) @@ ("JOIN" :> <<"O">>),
    ("NAME" :> <<"Other">>) @@ ("IP" :> <<"6.6.6.6">>) @@ ("JOIN" :> <<"O">>) }

CGAMAnswer(m) ==
  [k \in {"MAX-PLAYERS", "EKEY", "UGID", "JOIN", "LID", "SECRET", "J", "GID"} |->
     CASE k = "MAX-PLAYERS" -> <<"16">>
       [] k = "EKEY" -> <<"O65zZ2D2A58mNrZw1hmuJw%3d%3d">>
       [] k = "UGID" -> <<"7eb6155c-ac70-4567-9fc4-732d56a9334a">>
       [] k = "JOIN" -> m["JOIN"]
       [] k = "LID" -> <<"1">>
       [] k = "SECRET" -> <<"2587913">>
       [] k = "J" -> <<"0">>
       [] OTHER -> <<"5459">>]

\* the record CGAM leaves in gameServer-<gameLid>: the message with its quotes
\* stripped, then LID, IP, ACTIVE-PLAYERS and QUEUE-LENGTH
CGAMRecord(s, m, gameLid) ==
  ("LID" :> Itoa(gameLid)) @@ ("IP" :> ConnIP(s)) @@ ("ACTIVE-PLAYERS" :> <<"0">>)
    @@ ("QUEUE-LENGTH" :> <<"0">>) @@ [k \in DOMAIN m |-> StripQuotes(m[k])]

\* the active check and the read of the counter: gameLid = Atoi(Lobbies) + 1
CGAMBegin(s, m) ==
  /\ CanDispatch(s)
  /\ Dispatched(s)
  /\ IF ~IsActive(s)
     THEN UNCHANGED h
     ELSE h' = [h EXCEPT ![s] = [Idle EXCEPT !.pc = "cgam", !.msg = m,
                                             !.gameLid = Atoi(Lobbies) + 1]]
  /\ UNCHANGED <<conn, IsServer, flags, ident, store, jt, sent, restarts, panicked>>
  /\ UNCHANGED <<hb, draft>>

\* the writes of the record, the answer, and the write of the counter
CGAMEnd(s) ==
  /\ ~panicked
  /\ h[s].pc = "cgam"
  /\ LET id == Itoa(h[s].gameLid)
         rec == CGAMRecord(s, h[s].msg, h[s].gameLid)
     IN games' = HSetAll(games, id, rec, DOMAIN rec)
  /\ sent' = WriteFESL(s, "CGAM", CGAMAnswer(h[s].msg))
  /\ Lobbies' = Itoa(h[s].gameLid)
  /\ h' = [h EXCEPT ![s] = Idle]
  /\ UNCHANGED <<conn, IsServer, flags, ident, jt, ncmd, dropped, restarts, panicked>>
  /\ UNCHANGED <<hb, draft>>

\* -------------------------------------------------------------------- UGAM
UKeys == {"B-U-map", "B-U-server_state"}
ULids == {<<"1">>, <<"2">>}

\* update messages: a lobby id and values for some of the attribute keys
UGAMMsgs ==
  { ("LID" :> <<"1">>) @@ ("B-U-map" :> <<"a">>),
    ("LID" :> <<"1">>) @@ ("B-U-server_state" :> <<"b">>),
    ("LID" :> <<"2">>) @@ ("B-U-map" :> <<"b">>) @@ ("B-U-server_state" :> <<"b">>) }

\* the active check and IsServer = true
UGAMBegin(s, m) ==
  /\ CanDispatch(s)
  /\ Dispatched(s)
  /\ IF ~IsActive(s)
     THEN UNCHANGED <<IsServer, h>>
     ELSE /\ IsServer' = [IsServer EXCEPT ![s] = TRUE]
          /\ h' = [h EXCEPT ![s] = [Idle EXCEPT !.pc = "ugam", !.msg = m,
                                                !.left = DOMAIN m]]
  /\ UNCHANGED <<conn, flags, ident, store, jt, sent, restarts, panicked>>
  /\ UNCHANGED <<hb, draft>>

\* one iteration of the range loop: gameServer.Set(index, value), the keys in
\* the order the map iteration yields them
UGAMSet(s) ==
  /\ ~panicked
  /\ h[s].pc = "ugam"
  /\ \E k \in h[s].left :
       /\ games' = HSet(games, h[s].msg["LID"], k, h[s].msg[k])
       /\ h' = [h EXCEPT ![s] = IF h[s].left = {k} THEN Idle
                                 ELSE [h[s] EXCEPT !.left = @ \ {k}]]
  /\ UNCHANGED <<conn, IsServer, flags, ident, Lobbies, jt, sent, ncmd, dropped, restarts, panicked>>
  /\ UNCHANGED <<hb, draft>>

\* -------------------------------------------------------------------- GDAT
GDATAnswer ==
  [k \in {"TYPE", "AP", "MP", "JP", "QP", "I", "P", "N", "HN", "J", "LID", "GID",
          "B-U-map", "B-U-server_state", "B-U-community_name"} |->
     CASE k = "TYPE" -> <<"G">>
       [] k = "AP" -> <<"15">>
       [] k = "MP" -> <<"16">>
       [] k = "JP" -> <<"0">>
       [] k = "QP" -> <<"0">>
       [] k = "I" -> <<"45.77.79.240">>
       [] k = "P" -> <<"18569">>
       [] k = "N" -> <<"[iad]gs1-test.revive.systems(45.77.79.240%3a18569)">>
       [] k = "HN" -> <<"gs1-test.revive.systems">>
       [] k = "J" -> <<"O">>
       [] k = "LID" -> <<"1">>
       [] k = "GID" -> <<"5459">>
       [] k = "B-U-map" -> <<"no_vehicles">>
       [] k = "B-U-server_state" -> <<"empty">>
       [] OTHER -> <<"HeroesSV">>]

\* the query names gameServer-<LID> and answers with the fixed packet
GDAT(s, lid) ==
  /\ CanDispatch(s)
  /\ Dispatched(s)
  /\ IF ~IsActive(s)
     THEN UNCHANGED sent
     ELSE sent' = WriteFESL(s, "GDAT", GDATAnswer)
  /\ UNCHANGED <<conn, IsServer, flags, ident, store, h, jt, restarts, panicked>>
  /\ UNCHANGED <<hb, draft>>

\* ------------------------------------------- handlers that only answer
SimpleCmds == {"CONN", "USER", "LLST", "ECNL", "UBRA", "EGRS", "PENT", "UPLA", "GLST"}

\* fields of a request that the answers echo
SimpleMsg(s) ==
  ("PROT" :> <<"2">>) @@ ("LID" :> <<"1">>) @@ ("PID" :> AccId(s)) @@ ("P-cid" :> AccId(s))

\* the packets a handler writes, in order
SimpleAnswers(cmd, m) ==
  CASE cmd = "CONN" ->
         << [type |-> "CONN", f |-> ("activityTimeoutSecs" :> <<"30">>) @@ ("PROT" :> m["PROT"])] >>
    [] cmd = "USER" ->
         << [type |-> "USER", f |-> ("NAME" :> nickname) @@ ("CID" :> userId)] >>
    [] cmd = "LLST" ->
         << [type |-> "LLST", f |-> ("NUM-LOBBIES" :> <<"1">>)],
            [type |-> "LDAT", f |-> ("LID" :> <<"1">>) @@ ("NAME" :> <<"bfwestPC02">>)
                                      @@ ("NUM-GAMES" :> <<"1">>) @@ ("MAX-GAMES" :> <<"10000">>)] >>
    [] cmd = "ECNL" ->
         << [type |-> "ECNL", f |-> ("GID" :> <<"5459">>) @@ ("LID" :> m["LID"])] >>
    [] cmd = "UBRA" -> << [type |-> "UBRA", f |-> EmptyMsg] >>
    [] cmd = "EGRS" -> << [type |-> "EGRS", f |-> EmptyMsg] >>
    [] cmd = "PENT" -> << [type |-> "PENT", f |-> ("PID" :> m["PID"])] >>
    [] cmd = "UPLA" ->
         << [type |-> "UPLA", f |-> ("PID" :> m["PID"]) @@ ("P-cid" :> m["P-cid"])] >>
    [] OTHER -> << >>

Simple(s, cmd) ==
  /\ CanDispatch(s)
  /\ Dispatched(s)
  /\ IF ~IsActive(s)
     THEN UNCHANGED sent
     ELSE LET a == SimpleAnswers(cmd, SimpleMsg(s))
          IN sent' = sent \o [i \in 1..Len(a) |-> [to |-> s, type |-> a[i].type, f |-> a[i].f]]
  /\ UNCHANGED <<conn, IsServer, flags, ident, store, h, jt, restarts, panicked>>
  /\ UNCHANGED <<hb, draft>>

\* ------------------------------------------------- UGAM, second draft
\* errors of an Exec on the durable mirror
Deadlock == "Error 1213: Deadlock found when trying to get lock; try restarting transaction"
LockTimeout == "Error 1205: Lock wait timeout exceeded; try restarting transaction"
ExecResults == {"ok", Deadlock, LockTimeout}

DraftMsgs ==
  { ("GID" :> <<"5459">>) @@ ("TID" :> <<"7">>) @@ ("B-U-map" :> <<Quote, "a", Quote>>),
    ("GID" :> <<"5459">>) @@ ("TID" :> <<"8">>) @@ ("B-U-map" :> <<"b">>)
      @@ ("B-U-server_state" :> <<"b">>) }

\* the attributes the loop hands to gdata.Set and to the statement: every key
\* but TID, the quotes stripped
DraftArgs(m) == [k \in DOMAIN m \ {"TID"} |-> StripQuotes(m[k])]

\* every failure of the stats statement is tried again
MirrorResultsRetryAny(first, second) ==
  IF first # "ok" THEN <<first, second>> ELSE <<first>>

\* the results of the Exec calls of the stats statement: the second call is
\* made when the first fails with the deadlock error
MirrorResults(first, second) ==
  IF first = Deadlock THEN <<first, second>> ELSE <<first>>

\* the handler: the active check, gdata.Set of every attribute, the Exec of
\* stmtUpdateGame (a failure ends in log.Panicln) and the stats statement
UGAMDraft(s, m, updOk, first, second) ==
  /\ CanDispatch(s)
  /\ Dispatched(s)
  /\ IF ~IsActive(s)
     THEN UNCHANGED <<draft, panicked>>
     ELSE /\ gdata' = HSetAll(gdata, m["GID"], DraftArgs(m), DOMAIN DraftArgs(m))
          /\ panicked' = ~updOk
          /\ execs' = IF updOk
                      THEN LET r == MirrorResults(first, second)
                           IN execs \o [i \in 1..Len(r) |->
                                          [call |-> ncmd + 1, gid |-> m["GID"],
                                           args |-> DraftArgs(m), result |-> r[i]]]
                      ELSE execs
  /\ UNCHANGED <<conn, IsServer, flags, ident, store, h, jt, sent, restarts, hb>>

\* --------------------------------------------------- logAnswer and ECHO
\* the zero byte
Nul == "\\x00"

\* ioutil.WriteFile("./commands/<type>.<TXN>/answer"): a name that holds a
\* zero byte cannot be opened
WriteFileOk(txn) == \A i \in 1..Len(txn) : txn[i] # Nul

\* logAnswer panics when the file cannot be written
LogAnswerPanics(packet) ==
  "TXN" \in DOMAIN packet /\ ~WriteFileOk(packet["TXN"])

\* TXN values of a UDP datagram
EchoTxns == {<<"ECHO">>, <<"E", Nul>>}

ECHOAnswer(txn) ==
  ("TXN" :> txn) @@ ("IP" :> ExtIP(0)) @@ ("PORT" :> ExtPort(0)) @@ ("ERR" :> <<"0">>)
    @@ ("TYPE" :> <<"1">>)

\* ECHO answers the datagram on the UDP socket (session 0) and logs the answer
ECHO(txn) ==
  /\ ~panicked
  /\ ncmd < MaxCmds
  /\ ncmd' = ncmd + 1
  /\ sent' = WriteFESL(0, "ECHO", ECHOAnswer(txn))
  /\ panicked' = LogAnswerPanics(ECHOAnswer(txn))
  /\ UNCHANGED <<conn, IsServer, flags, ident, store, h, jt, dropped, restarts, hb, draft>>

\* ---------------------------------------------------------------- GetStats
\* rows of the stats table of a hero: key -> value
StatsTable == ("level" :> <<"5">>) @@ ("xp" :> <<"1", "0", "0">>)

\* requests: the owner, the count keys.[] and the keys keys.0, keys.1, ...
StatsMsgs ==
  { ("owner" :> <<"7">>) @@ ("keys.[]" :> <<"2">>) @@ ("keys.0" :> <<"level">>)
      @@ ("keys.1" :> <<"xp">>),
    ("owner" :> <<"7">>) @@ ("keys.[]" :> <<"3">>) @@ ("keys.0" :> <<"xp">>),
    ("owner" :> <<"7">>) @@ ("keys.[]" :> <<"many">>) @@ ("keys.0" :> <<"level">>),
    ("keys.0" :> <<"level">>) }

\* Message[k], the empty string for a missing key
Field(m, k) == IF k \in DOMAIN m THEN m[k] ELSE <<>>

\* the arguments after heroID and userID: keys.0 .. keys.<keys-1>
\* the field names "keys." + Itoa(i) and "stats." + Itoa(i) + part
KeysName(i) ==
  CASE i = 0 -> "keys.0" [] i = 1 -> "keys.1" [] i = 2 -> "keys.2" [] OTHER -> "keys.3"
StatsName(i, part) ==
  CASE i = 0 -> (CASE part = "key" -> "stats.0.key" [] part = "value" -> "stats.0.value"
                   [] OTHER -> "stats.0.text")
    [] OTHER -> (CASE part = "key" -> "stats.1.key" [] part = "value" -> "stats.1.value"
                   [] OTHER -> "stats.1.text")

RECURSIVE StatsArgs(_, _, _)
StatsArgs(m, i, keys) ==
  IF i >= keys THEN <<>>
  ELSE <<Field(m, KeysName(i))>> \o StatsArgs(m, i + 1, keys)

\* the rows the query returns: the requested keys the table holds
RECURSIVE StatsRows(_)
StatsRows(args) ==
  IF args = <<>> THEN <<>>
  ELSE LET k == Head(args)
       IN IF k # <<>> /\ \E n \in DOMAIN StatsTable : k = <<n>>
          THEN <<k[1]>> \o StatsRows(Tail(args)) ELSE StatsRows(Tail(args))

GetStatsAnswer(m, rows) ==
  LET base == ("TXN" :> <<"GetStats">>) @@ ("ownerId" :> Field(m, "owner"))
                @@ ("ownerType" :> <<"1">>) @@ ("stats.[]" :> Itoa(Len(rows)))
      row(i) == (StatsName(i - 1, "key") :> <<rows[i]>>)
                  @@ (StatsName(i - 1, "value") :> StatsTable[rows[i]])
                  @@ (StatsName(i - 1, "text") :> StatsTable[rows[i]])
  IN IF Len(rows) = 0 THEN base
     ELSE IF Len(rows) = 1 THEN row(1) @@ base
     ELSE row(1) @@ row(2) @@ base

\* GetStats: the count keys.[] read with its error dropped, the query, whose
\* error is only logged before rows.Next() is called on its nil result, and
\* the answer
GetStats(s, m, queryOk) ==
  /\ CanDispatch(s)
  /\ Dispatched(s)
  /\ IF ~IsActive(s)
     THEN UNCHANGED <<sent, panicked>>
     ELSE IF ~queryOk
     THEN panicked' = TRUE /\ UNCHANGED sent
     ELSE LET keys == Atoi(Field(m, "keys.[]"))
              a == GetStatsAnswer(m, StatsRows(StatsArgs(m, 0, keys)))
          IN /\ sent' = WriteFESL(s, "GetStats", a)
             /\ panicked' = LogAnswerPanics(a)
  /\ UNCHANGED <<conn, IsServer, flags, ident, store, h, jt, restarts, hb, draft>>

\* --------------------------------------------------------------------- New
\* the process is started again over the same store: every goroutine and
\* global of the old process is gone, its connections are dead, and New
\* writes "0" to gameServer-config / Lobbies
New ==
  /\ restarts < MaxRestarts
  /\ restarts' = restarts + 1
  /\ panicked' = FALSE
  /\ conn' = [s \in Sessions |-> IF conn[s] = "none" THEN "none" ELSE "closed"]
  /\ IsServer' = [s \in Sessions |-> FALSE]
  /\ wantsToJoin' = FALSE /\ canJoin' = FALSE /\ wantsToLeaveQueue' = FALSE
  /\ localPort' = <<>> /\ remotePort' = <<>> /\ localIP' = <<>> /\ remoteIP' = <<>>
  /\ userId' = <<>> /\ nickname' = <<>> /\ pid' = <<>>
  /\ Lobbies' = <<"0">>
  /\ h' = [s \in Sessions |-> Idle]
  /\ jt' = [s \in Sessions |-> "off"]
  /\ UNCHANGED <<games, sent, ncmd, dropped>>
  /\ hb' = [s \in Sessions |-> "off"]
  /\ UNCHANGED draft

\* ---------------------------------------------------------- specifications
\* the handshake: sessions identify as servers by an update, clients ask to join
JoinCGAMMsg == ("NAME" :> <<Quote, "Test", Quote>>) @@ ("JOIN" :> <<"O">>)
JoinUGAMMsg == ("LID" :> <<"1">>)

NextJoin ==
  \E s \in Sessions :
    \/ newClient(s)
    \/ EGAMBegin(s, EGAMMsg(s), TRUE)
    \/ EGAMScan(s)
    \/ EGAMAck(s)
    \/ JoinTick(s)
    \/ JoinSend(s)
    \/ UGAMBegin(s, JoinUGAMMsg)
    \/ UGAMSet(s)

SpecJoin == Init /\ [][NextJoin]_vars

\* the handshake with sessions that close
NextClose ==
  \E s \in Sessions :
    \/ newClient(s)
    \/ close(s)
    \/ ncmd < MaxDispatch /\ EGAMBegin(s, EGAMMsg(s), TRUE)
    \/ EGAMScan(s)
    \/ EGAMAck(s)
    \/ JoinTick(s)
    \/ JoinSend(s)
    \/ ncmd < MaxDispatch /\ UGAMBegin(s, JoinUGAMMsg)
    \/ UGAMSet(s)

SpecClose == Init /\ [][NextClose]_vars

\* the timers of sessions that close or whose transport fails
NextTimers ==
  \E s \in Peers :
    \/ newClient(s)
    \/ close(s)
    \/ HeartTick(s)
    \/ \E ok \in BOOLEAN : HeartSend(s, ok)
    \/ JoinTick(s)

SpecTimers == Init /\ [][NextTimers]_vars

\* sessions that send nothing: only the heartbeat runs, the ticker keeps
\* ticking and the goroutine keeps being scheduled
NextHeart ==
  \E s \in Peers :
    \/ newClient(s)
    \/ close(s)
    \/ HeartTick(s)
    \/ \E ok \in BOOLEAN : HeartSend(s, ok)

FairHeart ==
  \A s \in Sessions :
    WF_vars(HeartTick(s)) /\ WF_vars(\E ok \in BOOLEAN : HeartSend(s, ok))

SpecHeart == Init /\ [][NextHeart]_vars /\ FairHeart

\* updates that are mirrored to the database
NextDraft ==
  \E s \in Peers :
    \/ newClient(s)
    \/ close(s)
    \/ \E m \in DraftMsgs, updOk \in BOOLEAN, first, second \in ExecResults :
         ncmd < MaxDispatch /\ UGAMDraft(s, m, updOk, first, second)

SpecDraft == Init /\ [][NextDraft]_vars

\* what peers send, well-formed or not, and lookups that fail
NextInput ==
  \/ \E s \in Peers :
       \/ newClient(s)
       \/ \E prepOk \in BOOLEAN : EGAMBegin(s, EGAMMsg(s), prepOk)
       \/ EGAMScan(s)
       \/ EGAMAck(s)
       \/ \E m \in StatsMsgs, queryOk \in BOOLEAN : GetStats(s, m, queryOk)
  \/ \E txn \in EchoTxns : ECHO(txn)

SpecInput == Init /\ [][NextInput]_vars

\* lobbies with owners: a session creates and updates a lobby, a client asks
\* to join the lobby AskedLid
AskedLid == <<"2">>
OwnerEGAMMsg(s) == ("LID" :> AskedLid) @@ EGAMMsg(s)

NextOwner ==
  \E s \in Sessions :
    \/ newClient(s)
    \/ (\A c \in Sessions : h[c].pc \notin {"egam_scan", "egam_ack"})
         /\ (\A i \in 1..Len(sent) : sent[i].type # "EGAM")
         /\ EGAMBegin(s, OwnerEGAMMsg(s), TRUE)
    \/ EGAMScan(s)
    \/ EGAMAck(s)
    \/ JoinTick(s)
    \/ JoinSend(s)
    \/ CGAMBegin(s, JoinCGAMMsg)
    \/ CGAMEnd(s)
    \/ \E l \in ULids : UGAMBegin(s, ("LID" :> l))
    \/ UGAMSet(s)

SpecOwner == Init /\ [][NextOwner]_vars

\* updates of one lobby whose key sets overlap
MergeMsgs ==
  { ("LID" :> <<"1">>) @@ ("B-U-map" :> <<"a">>) @@ ("B-U-server_state" :> <<"a">>),
    ("LID" :> <<"1">>) @@ ("B-U-map" :> <<"b">>) @@ ("B-U-server_state" :> <<"b">>) }

NextMerge ==
  \E s \in Sessions :
    \/ newClient(s)
    \/ \E m \in MergeMsgs : UGAMBegin(s, m)
    \/ UGAMSet(s)

SpecMerge == Init /\ [][NextMerge]_vars

\* join requests received on active sessions so far
EGAMAcks == {i \in 1..Len(sent) : sent[i].type = "EGAM"}
JoinsBegun ==
  Cardinality(EGAMAcks) + Cardinality({s \in Sessions : h[s].pc \in {"egam_scan", "egam_ack"}})

\* lobby creations received so far
CreatesBegun ==
  Cardinality({i \in 1..Len(sent) : sent[i].type = "CGAM"})
    + Cardinality({s \in Sessions : h[s].pc = "cgam"})

\* the end-to-end scenario: one lobby is created, sessions send updates, one
\* join request; the connections stay open (SpecClose and SpecDispatch have the
\* closing ones)
NextE2E ==
  \E s \in Peers :
    \/ newClient(s)
    \/ JoinsBegun = 0 /\ EGAMBegin(s, EGAMMsg(s), TRUE)
    \/ EGAMScan(s)
    \/ EGAMAck(s)
    \/ JoinTick(s)
    \/ JoinSend(s)
    \/ CreatesBegun = 0 /\ CGAMBegin(s, JoinCGAMMsg)
    \/ CGAMEnd(s)
    \/ UGAMBegin(s, JoinUGAMMsg)
    \/ UGAMSet(s)

\* the tickers keep ticking and the goroutines keep running; nothing makes a
\* peer send a command
FairE2E ==
  \A s \in Sessions :
    /\ WF_vars(JoinTick(s)) /\ WF_vars(JoinSend(s))
    /\ WF_vars(EGAMScan(s)) /\ WF_vars(EGAMAck(s))
    /\ WF_vars(CGAMEnd(s)) /\ WF_vars(UGAMSet(s))

SpecE2E == Init /\ [][NextE2E]_vars /\ FairE2E

\* the registry: lobbies are created, updated and queried, and the manager
\* may be started again over the same store
NextRegistry ==
  \/ \E s \in Sessions :
       \/ newClient(s)
       \/ close(s)
       \/ \E m \in CGAMMsgs : CGAMBegin(s, m)
       \/ CGAMEnd(s)
       \/ \E m \in UGAMMsgs : UGAMBegin(s, m)
       \/ UGAMSet(s)
       \/ \E lid \in ULids : GDAT(s, lid)
  \/ New

SpecRegistry == Init /\ [][NextRegistry]_vars

\* the dispatcher: every command, on sessions that are open or already closed
HandlerBegins(s) ==
  \/ EGAMBegin(s, EGAMMsg(s), TRUE)
  \/ CGAMBegin(s, JoinCGAMMsg)
  \/ UGAMBegin(s, JoinUGAMMsg)
  \/ GDAT(s, <<"1">>)
  \/ \E cmd \in SimpleCmds : Simple(s, cmd)

NextDispatch ==
  \E s \in Sessions :
    \/ newClient(s)
    \/ close(s)
    \/ ncmd < MaxDispatch /\ HandlerBegins(s)
    \/ EGAMScan(s)
    \/ EGAMAck(s)
    \/ CGAMEnd(s)
    \/ UGAMSet(s)

SpecDispatch == Init /\ [][NextDispatch]_vars

\* update messages of a peer that puts an address of its own choice in them
AddrUGAMMsgs ==
  { ("LID" :> <<"1">>) @@ ("B-U-map" :> <<"a">>),
    ("LID" :> <<"1">>) @@ ("IP" :> <<"6.6.6.6">>),
    ("LID" :> <<"1">>) @@ ("IP" :> <<"6.6.6.6">>) @@ ("B-U-map" :> <<"b">>) }

\* lobbies are created and updated, with and without address fields in the
\* messages
NextAddress ==
  \E s \in Peers :
    \/ newClient(s)
    \/ \E m \in CGAMMsgs : CGAMBegin(s, m)
    \/ CGAMEnd(s)
    \/ \E m \in AddrUGAMMsgs : UGAMBegin(s, m)
    \/ UGAMSet(s)

SpecAddress == Init /\ [][NextAddress]_vars

\* join requests whose identity lookup finds a soldier, finds none, or fails
NextLookup ==
  \E s \in Sessions :
    \/ newClient(s)
    \/ close(s)
    \/ \E prepOk \in BOOLEAN : EGAMBegin(s, EGAMMsg(s), prepOk)
    \/ EGAMScan(s)
    \/ EGAMAck(s)

SpecLookup == Init /\ [][NextLookup]_vars

\* clients ask to leave the queue while sessions poll, some in the server role
NextLeave ==
  \E s \in Peers :
    \/ newClient(s)
    \/ close(s)
    \/ Simple(s, "ECNL")
    \/ UGAMBegin(s, JoinUGAMMsg)
    \/ UGAMSet(s)
    \/ JoinTick(s)

SpecLeave == Init /\ [][NextLeave]_vars

\* ------------------------------------------------------------------ claims
Positions(type) == {i \in 1..Len(sent) : sent[i].type = type}

\* join requests that have reached wantsToJoin = true
JoinsMarked ==
  Cardinality(EGAMAcks) + Cardinality({s \in Sessions : h[s].pc = "egam_ack"})

\* the session has sent a join request
HasAskedToJoin(s) ==
  \/ \E i \in EGAMAcks : sent[i].to = s
  \/ h[s].pc \in {"egam_scan", "egam_ack"}

\* no session has both asked to join and identified itself as a server
RolesSeparate == \A s \in Sessions : ~(IsServer[s] /\ HasAskedToJoin(s))

\* C1: every join request produces exactly one EGRQ, however many server-role
\* sessions poll: there are never more EGRQ messages than join requests that
\* have set the pending-join flag.
C1_OneRequestJoinPerJoin ==
  RolesSeparate => Cardinality(Positions("EGRQ")) <= JoinsMarked

\* C2: the EGEG of an issued ticket goes once, and only to the requesting
\* client: every EGEG follows an EGRQ that carries the account id of the
\* session the EGEG is sent to, and up to any EGEG there are no more EGEG
\* than EGRQ messages.
C2_EnterGameOnceToRequester ==
  RolesSeparate =>
    \A i \in Positions("EGEG") :
      /\ \E j \in Positions("EGRQ") : j < i /\ sent[j].f["UID"] = AccId(sent[i].to)
      /\ Cardinality({k \in Positions("EGEG") : k <= i})
           <= Cardinality({j \in Positions("EGRQ") : j < i})

\* C3: a session that has sent no join request is referenced by no handshake
\* message: no EGEG is sent to it and no EGRQ carries its account id.
C3_NoHandshakeWithoutJoin ==
  \A s \in Sessions :
    (RolesSeparate /\ ~HasAskedToJoin(s)) =>
      /\ \A i \in Positions("EGEG") : sent[i].to # s
      /\ \A i \in Positions("EGRQ") : sent[i].f["UID"] # AccId(s)

\* C9: once a session with a join in flight is closed (and its handler has
\* returned) the pending-join and ticket-issued flags do not point at it.
C9_NoFlagPointsAtClosedSession ==
  \A s \in Sessions :
    (conn[s] = "closed" /\ h[s].pc = "idle" /\ userId = AccId(s))
      => (~wantsToJoin /\ ~canJoin)

\* a CGAM handler returns in this step
CGAMReturns(s) == h[s].pc = "cgam" /\ h'[s].pc = "idle" /\ restarts' = restarts

\* C4: the lobby ids CreateLobby hands out are unique and strictly increasing,
\* also when handlers run concurrently: every CGAM that returns leaves the
\* counter, which is the id it assigned, above the ids assigned before it.
C4_LobbyIdsStrictlyIncrease ==
  [][\A s \in Sessions : CGAMReturns(s) => Atoi(Lobbies') > Atoi(Lobbies)]_vars

\* C5: CreateLobby never writes into a record that a CGAM call has created
\* before (such a record holds ACTIVE-PLAYERS, which only CGAM writes), in
\* every interleaving and after the manager is started again.
C5_NeverOverwritesLobby ==
  [][\A s \in Sessions :
       CGAMReturns(s) =>
         LET id == Itoa(h[s].gameLid)
         IN ~(id \in DOMAIN games /\ "ACTIVE-PLAYERS" \in DOMAIN games[id])]_vars

\* no update of the lobby is in progress
NoUpdateInFlight(lid) ==
  \A u \in Sessions : ~(h[u].pc = "ugam" /\ h[u].msg["LID"] = lid)

\* C6: a query after the updates of a lobby have returned reflects every
\* attribute key the updates supplied, with the value written last.
C6_QueryReflectsUpdates ==
  [][\A s \in Sessions, lid \in ULids :
       (GDAT(s, lid) /\ IsActive(s) /\ lid \in DOMAIN games /\ NoUpdateInFlight(lid))
         => \A k \in UKeys \cap DOMAIN games[lid] :
              sent'[Len(sent')].f[k] = games[lid][k]]_vars

\* C7: an update never creates a lobby record, and the LID of a record never
\* changes once it is there.
C7_UpdateNeverCreates ==
  [][/\ (\E s \in Sessions : UGAMSet(s)) => DOMAIN games' = DOMAIN games
     /\ \A l \in DOMAIN games :
          "LID" \in DOMAIN games[l] => games'[l]["LID"] = games[l]["LID"]]_vars

\* a poll tick of s finds s active
Polls(s) == JoinTick(s) /\ IsActive(s)

\* s has been answered a CGAM
HasCreated(s) == \E i \in Positions("CGAM") : sent[i].to = s

HandlerContinues(s) == EGAMScan(s) \/ EGAMAck(s) \/ CGAMEnd(s) \/ UGAMSet(s)

\* C10 as stated: nothing a handler does on an inactive session sends a
\* message or changes the registry or the handshake state, the session having
\* become inactive while the handler runs included.
C10_NoEffectOnceInactive ==
  [][\A s \in Sessions :
       (~IsActive(s) /\ (HandlerBegins(s) \/ HandlerContinues(s)))
         => UNCHANGED <<sent, store, flags, ident>>]_vars

\* C10 amended: a command whose handler starts on a session whose active flag
\* is false is dropped: no handler runs for it, no message is sent, and the
\* registry, the handshake state and the roles stay as they are.
C10_InactiveCommandDropped ==
  [][\A s \in Sessions :
       (~IsActive(s) /\ HandlerBegins(s))
         => UNCHANGED <<sent, store, flags, ident, IsServer, h>>]_vars

\* a command was dropped after a lobby was written and a join was requested
C10_Witness == dropped > 0 /\ Len(sent) > 0 /\ (wantsToJoin \/ DOMAIN games # {})

\* ----------------------------------------------------------------- timers
\* the last WriteFESL call of the step is a timer message on s
TimerMessageOn(s) ==
  /\ Len(sent') = Len(sent) + 1
  /\ sent'[Len(sent')].to = s
  /\ sent'[Len(sent')].type \in {"PING", "EGRQ", "EGEG"}

\* C11 as stated: once a session is closed, no PING, EGRQ or EGEG is sent on
\* it any more.
C11_NoTickAfterClose ==
  [][\A s \in Sessions : conn[s] \in {"closed", "error"} => ~TimerMessageOn(s)]_vars

C12_HeartbeatLiveness ==
  <>[](\A s \in Sessions : IsActive(s) => Pings(s) = MaxPings)

\* a session still connected that has had every PING the bound allows
C12_Witness == \E s \in Sessions : IsActive(s) /\ Pings(s) = MaxPings

\* --------------------------------------------------------- durable mirror
\* the positions in execs of the attempts of one update
AttemptsOf(c) == {i \in 1..Len(execs) : execs[i].call = c}

C15_NoHandlerPanics == ~panicked

\* -------------------------------------------------- identity and ordering
\* the EGRQ packet carries the identity and the addresses of the join request
\* of session c
FromRequestOf(f, c) ==
  /\ f["UID"] = AccId(c) /\ f["R-U-accid"] = AccId(c)
  /\ HasSoldier(AccId(c)) =>
       f["PID"] = SoldierPid(AccId(c)) /\ f["NAME"] = SoldierNick(AccId(c))
  /\ f["IP"] = ExtIP(c) /\ f["PORT"] = ExtPort(c)
  /\ f["INT-IP"] = IntIP(c) /\ f["INT-PORT"] = IntPort(c)

\* C16 as stated: every EGRQ carries the account id, player id, nickname and
\* addresses of one and the same join request, and an EGEG carries the player
\* id of the EGRQ before it.
C16_IdentityNotTorn ==
  RolesSeparate =>
    /\ \A i \in Positions("EGRQ") :
         \E c \in Sessions : HasAskedToJoin(c) /\ FromRequestOf(sent[i].f, c)
    /\ \A k \in Positions("EGEG") :
         \A j \in Positions("EGRQ") :
           (j < k /\ \A j2 \in Positions("EGRQ") : j2 < k => j2 <= j)
             => sent[k].f["PID"] = sent[j].f["PID"]

\* C17 as stated: an EGEG is sent only after the EGRQ of the same join
\* request: the player id an EGEG carries is the player id of an EGRQ sent
\* before it.
C17_EnterGameAfterRequestJoin ==
  RolesSeparate =>
    \A k \in Positions("EGEG") :
      \E j \in Positions("EGRQ") : j < k /\ sent[k].f["PID"] = sent[j].f["PID"]

\* C18 as stated: a join request that was acknowledged to a client leads to an
\* EGEG to that client, once a server-role session is there and the poll loops
\* keep running (the client itself does not turn into a server).
C18_JoinProgress ==
  \A c \in Sessions :
    ((\E i \in EGAMAcks : sent[i].to = c) /\ (\E s \in Sessions \ {c} : IsServer[s]))
      ~> (IsServer[c] \/ \E k \in Positions("EGEG") : sent[k].to = c)

\* ---------------------------------------------------------------- owners
\* session s created the lobby lid: its record carries the address of s
Owns(s, lid) ==
  lid \in DOMAIN games /\ "IP" \in DOMAIN games[lid] /\ games[lid]["IP"] = ConnIP(s)

\* C19 as stated: a join request for one lobby never causes an EGRQ to a
\* server session that owns another lobby: a session that owns a lobby and is
\* sent an EGRQ owns the lobby the client asked to join.
C19_RequestJoinOnlyToOwner ==
  RolesSeparate =>
    \A i \in Positions("EGRQ") :
      (\E l \in DOMAIN games : Owns(sent[i].to, l)) => Owns(sent[i].to, AskedLid)

\* ----------------------------------------------------------------- merges
\* C20 as stated: updates of one lobby are linearizable.  Every update of
\* MergeMsgs gives both shared keys the same value, so once no update of the
\* lobby is in flight the record holds one value for both, that of the update
\* applied last.
C20_UpdatesLinearizable ==
  \A lid \in DOMAIN games :
    (NoUpdateInFlight(lid) /\ UKeys \subseteq DOMAIN games[lid])
      => games[lid]["B-U-map"] = games[lid]["B-U-server_state"]

\* -------------------------------------------------------------- addresses
\* the addresses the server observed on its connections
ObservedIPs == { ConnIP(s) : s \in Sessions }

\* C21 as stated: the stored address of a lobby is an address the server
\* observed on a connection, never a value of a message field.  Two runs that
\* differ only in the address fields of the messages then hold the same IP:
\* the record of every lobby CGAM created (it holds ACTIVE-PLAYERS) carries an
\* observed address, whatever CGAM and UGAM messages came in.
C21_StoredAddressIsObserved ==
  \A lid \in DOMAIN games :
    "ACTIVE-PLAYERS" \in DOMAIN games[lid] => games[lid]["IP"] \in ObservedIPs

\* ---------------------------------------------------------------- lookups
\* C22 as stated: every EGAM received on an active session is answered with
\* the EGAM acknowledgement, whatever the lookup did.  Under SpecLookup every
\* command is an EGAM, ncmd counts the commands received and dropped those
\* that found their session inactive: once no handler is running, there are
\* as many acknowledgements as requests received on active sessions.
C22_EveryJoinRequestAcknowledged ==
  (\A s \in Sessions : h[s].pc = "idle")
    => Cardinality(EGAMAcks) = ncmd - dropped

\* ----------------------------------------------------------- leave queue
\* this step writes the answer of an ECNL on an active session
ECNLAnswered ==
  Len(sent') = Len(sent) + 1 /\ sent'[Len(sent')].type = "ECNL"

\* C23 as stated: an ECNL on an active session sets the pending-leave flag,
\* and the poll tick of a server-role session that finds the flag set clears
\* it and sends nothing.
C23_LeaveRequestSetsFlag ==
  [][/\ ECNLAnswered => wantsToLeaveQueue'
     /\ \A s \in Sessions :
          (JoinTick(s) /\ IsActive(s) /\ IsServer[s] /\ wantsToLeaveQueue)
            => (~wantsToLeaveQueue' /\ sent' = sent)]_vars

====
